---- MODULE Spec2Model ----
(***************************************************************************)
(* Model of the request-dispatch layer of doggo.js (class PatClient):      *)
(* the bearer-token holder, the JSON request primitive makeRequest, the    *)
(* binary upload primitive makeUploadRequest, and the three consumers with *)
(* logic of their own (upload, replace, checkAuth).                        *)
(***************************************************************************)
EXTENDS Integers, Sequences, FiniteSets, TLC

VARIABLES
    token,      \* PatClient.token : undefined or a string
    lastSet,    \* history: the value last passed to authenticate / assigned
    env,        \* the globals of the host: is there a window, an XMLHttpRequest
    calls       \* the calls issued so far, in issue order, with their requests

vars == <<token, lastSet, env, calls>>

(***************************************************************************)
(* Bounds.                                                                 *)
(***************************************************************************)
MaxCalls == 2          \* calls issued in a behaviour of Spec
MaxIssueCalls == 1     \* calls issued in a behaviour of SpecIssue
MaxResponseCalls == 1  \* calls issued in a behaviour of SpecResponse

(***************************************************************************)
(* JavaScript values.                                                      *)
(***************************************************************************)
Undefined == [type |-> "undefined"]
Null == [type |-> "null"]
Str(s) == [type |-> "string", v |-> s]
Bool(b) == [type |-> "boolean", b |-> b]
\* an object is its set of <<property name, value>> pairs
Obj(fields) == [type |-> "object", fields |-> fields]

\* ToBoolean, as applied by `if (x)`, `x || y`
Truthy(v) ==
    CASE v.type = "string" -> v.v # ""
      [] v.type = "boolean" -> v.b
      [] v.type = "object" -> TRUE
      [] OTHER -> FALSE

\* the test of `x ?? y`
Nullish(v) == v.type \in {"undefined", "null"}

\* a || b
Or(a, b) == IF Truthy(a) THEN a ELSE b

\* a ?? b
Coalesce(a, b) == IF Nullish(a) THEN b ELSE a

\* ToString, as applied by a template literal `${x}` and by new Error(x)
ToStr(v) ==
    CASE v.type = "string" -> v.v
      [] v.type = "undefined" -> "undefined"
      [] v.type = "null" -> "null"
      [] v.type = "boolean" -> (IF v.b THEN "true" ELSE "false")
      [] OTHER -> "[object Object]"

\* the typeof operator
Typeof(v) == IF v.type = "null" THEN "object" ELSE v.type

\* v.name for a v that is neither null nor undefined
GetProp(v, name) ==
    IF v.type = "object" /\ \E p \in v.fields : p[1] = name
    THEN (CHOOSE p \in v.fields : p[1] = name)[2]
    ELSE Undefined

\* new Error(message)
NewError(message) ==
    [name |-> "Error",
     message |-> IF message.type = "undefined" THEN "" ELSE ToStr(message)]

\* the errors the runtime itself raises
RuntimeError(name, message) == [name |-> name, message |-> message]

(***************************************************************************)
(* Promises: settled at most once, later resolve/reject calls are ignored. *)
(***************************************************************************)
Pending == [state |-> "pending"]
Resolved(value) == [state |-> "resolved", value |-> value]
Rejected(error) == [state |-> "rejected", error |-> error]

Settle(promise, settlement) ==
    IF promise.state = "pending" THEN settlement ELSE promise

(***************************************************************************)
(* JSON.parse / Response.json() on the response texts of the model.        *)
(***************************************************************************)
ParseFail == [ok |-> FALSE]
ParseOk(value) == [ok |-> TRUE, value |-> value]

JSONParse(text) ==
    CASE text = "null" -> ParseOk(Null)
      [] text = "{}" -> ParseOk(Obj({}))
      [] text = "{\"message\":\"not found\"}" ->
            ParseOk(Obj({<<"message", Str("not found")>>}))
      [] text = "{\"message\":\"\"}" -> ParseOk(Obj({<<"message", Str("")>>}))
      [] text = "{\"message\":null}" -> ParseOk(Obj({<<"message", Null>>}))
      [] OTHER -> ParseFail    \* "", "<html>"

(***************************************************************************)
(* URLs: a path and the list of <<name, value>> pairs of searchParams.     *)
(***************************************************************************)
RECURSIVE DropKey(_, _)
DropKey(search, key) ==
    IF search = <<>> THEN <<>>
    ELSE IF Head(search)[1] = key THEN DropKey(Tail(search), key)
    ELSE <<Head(search)>> \o DropKey(Tail(search), key)

\* URLSearchParams.set(key, value)
SearchParamsSet(search, key, value) ==
    IF \E i \in 1..Len(search) : search[i][1] = key
    THEN LET first == CHOOSE i \in 1..Len(search) :
                        /\ search[i][1] = key
                        /\ \A j \in 1..(i - 1) : search[j][1] # key
         IN SubSeq(search, 1, first - 1) \o <<<<key, value>>>>
              \o DropKey(SubSeq(search, first + 1, Len(search)), key)
    ELSE Append(search, <<key, value>>)

\* application/x-www-form-urlencoded serialisation of one name or value
FormEncode(s) ==
    CASE s = "a b" -> "a+b"
      [] s = "a+b" -> "a%2Bb"
      [] s = "text/plain" -> "text%2Fplain"
      [] OTHER -> s     \* "", "p1", "a.txt", "1": unreserved characters only

\* encodeURIComponent
EncodeURIComponent(s) ==
    CASE s = "a/b" -> "a%2Fb"
      [] OTHER -> s     \* "s1"

\* URL.toString(): the query string as transmitted, pair by pair
SerializeSearch(search) ==
    [i \in 1..Len(search) |-> <<FormEncode(search[i][1]), FormEncode(search[i][2])>>]

(***************************************************************************)
(* Requests and responses.                                                 *)
(***************************************************************************)
NoHeader == <<>>

\* the template literal `Bearer ${tok}`
Bearer(tok) == <<"Bearer ", ToStr(tok)>>

NoResponse == [type |-> "none"]
NetworkFailure == [type |-> "failure"]
Response(status, statusText, body) ==
    [type |-> "response", status |-> status, statusText |-> statusText,
     body |-> body]

\* Response.ok
ResponseOk(res) == res.status >= 200 /\ res.status <= 299

\* MethodResult with a checkAuth that catches Error instances only
MethodResult_CatchErrorOnly(op, promise) ==
    IF promise.state = "pending" THEN Pending
    ELSE IF op = "checkAuth" /\ promise.state = "resolved" THEN Resolved(Bool(TRUE))
    ELSE IF op = "checkAuth" /\ promise.error.name = "Error" THEN Resolved(Bool(FALSE))
    ELSE promise

\* what the public method returns once its primitive has settled:
\* checkAuth turns the settlement into a boolean, the others pass it on
MethodResult(op, promise) ==
    IF promise.state = "pending" THEN Pending
    ELSE IF op = "checkAuth" THEN Resolved(Bool(promise.state = "resolved"))
    ELSE promise

\* the arguments of a call that its request is built from
Args(query, body, file, parentId) ==
    [query |-> query, body |-> body, file |-> file, parentId |-> parentId]
NoFile == [type |-> "", name |-> ""]

\* a call of a public method, with the request it produced; issuedWith and
\* afterFailure are history: the token last set when the call was issued,
\* and whether an earlier call had been rejected by then
Call(op, args, transport, method, path, headers, query, readyState, promise) ==
    [op |-> op, args |-> args, issuedWith |-> lastSet,
     afterFailure |-> \E j \in 1..Len(calls) : calls[j].promise.state = "rejected",
     transport |-> transport, method |-> method,
     path |-> path, headers |-> headers, query |-> query,
     readyState |-> readyState, response |-> NoResponse,
     promise |-> promise, result |-> MethodResult(op, promise)]

(***************************************************************************)
(* makeRequest, up to the await of fetch.                                  *)
(***************************************************************************)
\* JsonHeaders testing the token with `!== undefined`
JsonHeaders_DefinedToken(tok, body) ==
    [Accept |-> <<"application/json">>,
     Authorization |-> IF tok # Undefined THEN Bearer(tok) ELSE NoHeader,
     ContentType |-> IF Truthy(body) THEN <<"application/json">> ELSE NoHeader]

JsonHeaders(tok, body) ==
    [Accept |-> <<"application/json">>,
     Authorization |-> IF Truthy(tok) THEN Bearer(tok) ELSE NoHeader,
     ContentType |-> IF Truthy(body) THEN <<"application/json">> ELSE NoHeader]

\* ApplyQuery testing the value with `!= null`
RECURSIVE ApplyQuery_NotNullish(_, _)
ApplyQuery_NotNullish(search, entries) ==
    IF entries = <<>> THEN search
    ELSE LET key == Head(entries)[1]
             value == Head(entries)[2]
         IN ApplyQuery_NotNullish(IF ~Nullish(value)
                                  THEN SearchParamsSet(search, key, value.v)
                                  ELSE search,
                                  Tail(entries))

\* the loop over Object.entries(query)
RECURSIVE ApplyQuery(_, _)
ApplyQuery(search, entries) ==
    IF entries = <<>> THEN search
    ELSE LET key == Head(entries)[1]
             value == Head(entries)[2]
         IN ApplyQuery(IF Truthy(value) THEN SearchParamsSet(search, key, value.v)
                       ELSE search,
                       Tail(entries))

MakeRequest(limit, op, method, path, query, body) ==
    /\ Len(calls) < limit
    /\ calls' = Append(calls,
                       Call(op, Args(query, body, NoFile, Undefined),
                            "fetch", method, path,
                            JsonHeaders(token, body),
                            SerializeSearch(ApplyQuery(<<>>, query)),
                            0, Pending))
    /\ UNCHANGED <<token, lastSet, env>>

(***************************************************************************)
(* makeRequest, from the settlement of fetch to its own settlement.        *)
(***************************************************************************)
HandleFetch(fr) ==
    IF fr.type = "failure"
    THEN Rejected(RuntimeError("TypeError", "Failed to fetch"))
    ELSE LET parsed == JSONParse(fr.body)
         IN IF ~ResponseOk(fr)
            THEN LET message ==
                        IF parsed.ok /\ ~Nullish(parsed.value)
                        THEN GetProp(parsed.value, "message")
                        ELSE Str(fr.statusText)
                 IN Rejected(NewError(Coalesce(message, Str("No error info"))))
            ELSE IF parsed.ok THEN Resolved(parsed.value)
            ELSE Rejected(RuntimeError("SyntaxError", "Unexpected end of JSON input"))

FetchSettle(i, fr) ==
    /\ i \in 1..Len(calls)
    /\ calls[i].transport = "fetch"
    /\ calls[i].promise.state = "pending"
    /\ LET promise == HandleFetch(fr)
       IN calls' = [calls EXCEPT ![i].response = fr,
                                 ![i].promise = promise,
                                 ![i].result = MethodResult(calls[i].op, promise)]
    /\ UNCHANGED <<token, lastSet, env>>

(***************************************************************************)
(* The token setter, and checkAuth.                                        *)
(***************************************************************************)
\* Authenticate with requests that read the token of the client when sent
\* on, not when built
Authenticate_SharedHeaders(t) ==
    /\ token' = t
    /\ lastSet' = t
    /\ calls' = [i \in 1..Len(calls) |->
                    IF calls[i].promise.state = "pending"
                    THEN [calls[i] EXCEPT !.headers.Authorization = Bearer(t)]
                    ELSE calls[i]]
    /\ UNCHANGED env

Authenticate(t) ==
    /\ token' = t
    /\ lastSet' = t
    /\ UNCHANGED <<env, calls>>

CheckAuth(limit) ==
    MakeRequest(limit, "checkAuth", "get", <<"/v1/auth/check">>, <<>>, Undefined)

(***************************************************************************)
(* makeUploadRequest, up to xhr.send.                                      *)
(***************************************************************************)
\* the capability test, `typeof 'window' === 'undefined'`: its operand is
\* the string literal 'window', not the global of that name
CapabilityGuard == Typeof(Str("window")) = "undefined"

UploadHeaders(tok) ==
    [Accept |-> NoHeader,
     Authorization |-> Bearer(tok),
     ContentType |-> <<"application/octet-stream">>]

NoHeaders == [Accept |-> NoHeader, Authorization |-> NoHeader, ContentType |-> NoHeader]

MakeUploadRequest(limit, op, args, method, path, search) ==
    /\ Len(calls) < limit
    /\ calls' = Append(calls,
          IF CapabilityGuard
          THEN \* no request is made
               Call(op, args, "none", method, path, NoHeaders, <<>>, 0,
                    Rejected(NewError(Str("File uploads only supported in browser"))))
          ELSE IF ~env.hasXHR
          THEN \* `new XMLHttpRequest()` throws inside the promise executor
               Call(op, args, "none", method, path, NoHeaders, <<>>, 0,
                    Rejected(RuntimeError("ReferenceError",
                                          "XMLHttpRequest is not defined")))
          ELSE Call(op, args, "xhr", method, path, UploadHeaders(token),
                    SerializeSearch(search), 1, Pending))
    /\ UNCHANGED <<token, lastSet, env>>

(***************************************************************************)
(* upload and replace: the URL they build for makeUploadRequest.           *)
(***************************************************************************)
UploadSearch(file, parentId) ==
    LET s1 == IF Truthy(parentId)
              THEN SearchParamsSet(<<>>, "parentId", parentId.v) ELSE <<>>
        s2 == SearchParamsSet(s1, "mimeType", file.type)
    IN IF Truthy(Str(file.name))
       THEN SearchParamsSet(s2, "originalName", file.name) ELSE s2

ReplaceSearch(file) ==
    LET s1 == SearchParamsSet(<<>>, "mimeType", file.type)
    IN IF Truthy(Str(file.name))
       THEN SearchParamsSet(s1, "originalName", file.name) ELSE s1

Upload(limit, file, parentId) ==
    MakeUploadRequest(limit, "upload", Args(<<>>, Undefined, file, parentId),
                      "post", <<"/v1/upload">>,
                      UploadSearch(file, parentId))

Replace(limit, shortName, file) ==
    MakeUploadRequest(limit, "replace", Args(<<>>, Undefined, file, Undefined),
                      "put",
                      <<"/v1/file/", EncodeURIComponent(shortName)>>,
                      ReplaceSearch(file))

(***************************************************************************)
(* The listeners makeUploadRequest registers, and the events of the        *)
(* transport that run them.                                                *)
(***************************************************************************)
\* the 'readystatechange' listener
OnReadyStateChange(promise, readyState, res) ==
    IF readyState = 4
    THEN LET parsed == JSONParse(res.body)
         IN IF ~parsed.ok
            THEN Settle(promise, Rejected(NewError(Str("Unable to parse json"))))
            ELSE IF res.status >= 200 /\ res.status < 300
            THEN Settle(promise, Resolved(parsed.value))
            ELSE IF Nullish(parsed.value)
            THEN \* json.message throws a TypeError inside the try block
                 Settle(promise, Rejected(NewError(Str("Unable to parse json"))))
            ELSE Settle(promise,
                        Rejected(NewError(Or(Or(GetProp(parsed.value, "message"),
                                                Str(res.statusText)),
                                             Str("No error info")))))
    ELSE promise

\* the 'error' listener
OnError(promise) ==
    Settle(promise, Rejected(NewError(Str("An unexpected error occurred"))))

\* the transport moves to HEADERS_RECEIVED (2), then LOADING (3)
XhrReadyStateChange(i) ==
    /\ i \in 1..Len(calls)
    /\ calls[i].transport = "xhr"
    /\ calls[i].readyState \in {1, 2}
    /\ LET readyState == calls[i].readyState + 1
           promise == OnReadyStateChange(calls[i].promise, readyState,
                                         calls[i].response)
       IN calls' = [calls EXCEPT ![i].readyState = readyState,
                                 ![i].promise = promise,
                                 ![i].result = MethodResult(calls[i].op, promise)]
    /\ UNCHANGED <<token, lastSet, env>>

\* the response has arrived in full: the transport moves to DONE (4)
XhrLoad(i, res) ==
    /\ i \in 1..Len(calls)
    /\ calls[i].transport = "xhr"
    /\ calls[i].readyState \in {1, 2, 3}
    /\ LET promise == OnReadyStateChange(calls[i].promise, 4, res)
       IN calls' = [calls EXCEPT ![i].readyState = 4,
                                 ![i].response = res,
                                 ![i].promise = promise,
                                 ![i].result = MethodResult(calls[i].op, promise)]
    /\ UNCHANGED <<token, lastSet, env>>

\* the connection fails: the transport moves to DONE (4) with status 0 and
\* an empty response, fires 'readystatechange' and then 'error'
XhrNetworkError(i) ==
    /\ i \in 1..Len(calls)
    /\ calls[i].transport = "xhr"
    /\ calls[i].readyState \in {1, 2, 3}
    /\ LET res == Response(0, "", "")
           promise == OnError(OnReadyStateChange(calls[i].promise, 4, res))
       IN calls' = [calls EXCEPT ![i].readyState = 4,
                                 ![i].response = res,
                                 ![i].promise = promise,
                                 ![i].result = MethodResult(calls[i].op, promise)]
    /\ UNCHANGED <<token, lastSet, env>>

(***************************************************************************)
(* Inputs.                                                                 *)
(***************************************************************************)
Tokens == {Undefined, Str(""), Str("t1"), Str("t2")}

Browser == [hasWindow |-> TRUE, hasXHR |-> TRUE]
Worker == [hasWindow |-> FALSE, hasXHR |-> TRUE]
Node == [hasWindow |-> FALSE, hasXHR |-> FALSE]
Envs == {Browser, Worker, Node}

QueryKeys == {"parentId", "count"}
QueryValues == {Undefined, Null, Str(""), Str("p1"), Str("a b")}

\* the query objects: lists of entries with distinct keys
Queries ==
    {<<>>}
    \cup {<<<<k, v>>>> : k \in QueryKeys, v \in QueryValues}
    \cup {<<<<ks[1], v1>>, <<ks[2], v2>>>> :
              ks \in {<<"parentId", "count">>, <<"count", "parentId">>},
              v1 \in QueryValues, v2 \in QueryValues}

NoBody == Undefined
FolderBody == Obj({<<"name", Str("n")>>, <<"parentId", Null>>})

Files == [type : {"", "text/plain"}, name : {"", "a.txt"}]
ParentIds == {Null, Str(""), Str("p1")}
ShortNames == {"s1", "a/b"}

Statuses == {200, 299, 300, 404, 500}
XhrStatuses == {199, 200, 299, 300, 404, 500}
StatusTexts == {"", "Status Text"}
Bodies == {"", "<html>", "null", "{}", "{\"message\":\"not found\"}",
           "{\"message\":\"\"}", "{\"message\":null}"}

FetchResults ==
    {NetworkFailure}
    \cup {Response(st, tx, b) : st \in Statuses, tx \in StatusTexts, b \in Bodies}

XhrResponses ==
    {Response(st, tx, b) : st \in XhrStatuses, tx \in StatusTexts, b \in Bodies}

\* the inputs of Spec, where calls overlap
FewFetchResults == {NetworkFailure, Response(200, "Status Text", "{}")}
FewXhrResponses == {Response(200, "Status Text", "{}")}
OneFile == [type |-> "text/plain", name |-> "a.txt"]

(***************************************************************************)
(* Spec: one client, its token set and cleared at any time, while calls of *)
(* both primitives are issued and settled in any order.                    *)
(***************************************************************************)
Init ==
    /\ token = Undefined
    /\ lastSet = token
    /\ env = Browser
    /\ calls = <<>>

Next ==
    \/ \E t \in Tokens : Authenticate(t)
    \/ MakeRequest(MaxCalls, "makeRequest", "get", <<"/v1/files">>,
                   <<<<"parentId", Null>>>>, NoBody)
    \/ Upload(MaxCalls, OneFile, Null)
    \/ \E i \in 1..Len(calls), fr \in FewFetchResults : FetchSettle(i, fr)
    \/ \E i \in 1..Len(calls) : XhrReadyStateChange(i)
    \/ \E i \in 1..Len(calls), res \in FewXhrResponses : XhrLoad(i, res)
    \/ \E i \in 1..Len(calls) : XhrNetworkError(i)

Spec == Init /\ [][Next]_vars

(***************************************************************************)
(* SpecIssue: the request each entry point builds, for every token, host,  *)
(* query object and file.                                                  *)
(***************************************************************************)
InitIssue ==
    /\ token \in Tokens
    /\ lastSet = token
    /\ env \in Envs
    /\ calls = <<>>

NextIssue ==
    \/ \E q \in Queries, b \in {NoBody, FolderBody} :
          MakeRequest(MaxIssueCalls, "makeRequest",
                      IF b = NoBody THEN "get" ELSE "post", <<"/v1/files">>, q, b)
    \/ \E f \in Files, p \in ParentIds : Upload(MaxIssueCalls, f, p)
    \/ \E n \in ShortNames, f \in Files : Replace(MaxIssueCalls, n, f)

SpecIssue == InitIssue /\ [][NextIssue]_vars

(***************************************************************************)
(* SpecResponse: the settlement of each entry point, for every response of *)
(* the transport.                                                          *)
(***************************************************************************)
InitResponse ==
    /\ token = Undefined
    /\ lastSet = token
    /\ env = Browser
    /\ calls = <<>>

NextResponse ==
    \/ MakeRequest(MaxResponseCalls, "makeRequest", "get", <<"/v1/files">>,
                   <<>>, NoBody)
    \/ CheckAuth(MaxResponseCalls)
    \/ Upload(MaxResponseCalls, OneFile, Null)
    \/ \E i \in 1..Len(calls), fr \in FetchResults : FetchSettle(i, fr)
    \/ \E i \in 1..Len(calls) : XhrReadyStateChange(i)
    \/ \E i \in 1..Len(calls), res \in XhrResponses : XhrLoad(i, res)
    \/ \E i \in 1..Len(calls) : XhrNetworkError(i)

SpecResponse == InitResponse /\ [][NextResponse]_vars

TypeOK ==
    /\ token \in Tokens
    /\ env \in Envs
    /\ \A i \in 1..Len(calls) :
          /\ calls[i].transport \in {"fetch", "xhr", "none"}
          /\ calls[i].promise.state \in {"pending", "resolved", "rejected"}

(***************************************************************************)
(* Properties.                                                             *)
(***************************************************************************)
\* a token is held when one has been set and it is not the empty string
TokenHeld(t) == t # Undefined /\ t # Str("")

\* the Authorization header of the JSON primitive for a token last set to t
ExpectedAuthorization(t) == IF TokenHeld(t) THEN <<"Bearer ", t.v>> ELSE <<>>

ErrorWith(message) == Rejected([name |-> "Error", message |-> message])

NonJsonBodies == {"", "<html>"}
InSuccessRange(status) == status \in 200..299

\* C1: every makeRequest call carries no Authorization header when no token
\* is held at the time it is issued, and otherwise exactly
\* "Bearer <token>" with the token most recently set; this holds for every
\* call, also for one issued after an earlier call was rejected.
C1_AuthorizationFollowsToken ==
    \A i \in 1..Len(calls) :
        calls[i].transport = "fetch" =>
            calls[i].headers.Authorization = ExpectedAuthorization(calls[i].issuedWith)

\* a makeRequest issued after a rejected call and after the token went from
\* t1 to t2 carries Bearer t2
C1_Witness ==
    \E i \in 1..Len(calls), j \in 1..Len(calls) :
        /\ j < i
        /\ calls[j].issuedWith = Str("t1")
        /\ calls[j].promise.state = "rejected"
        /\ calls[i].transport = "fetch"
        /\ calls[i].afterFailure
        /\ calls[i].issuedWith = Str("t2")
        /\ calls[i].headers.Authorization = <<"Bearer ", "t2">>

\* C2: an upload request carries an Authorization header exactly when
\* makeRequest would carry one for the same token, with the same value; with
\* no token set it carries none.
C2_UploadAuthorizationAsJson ==
    \A i \in 1..Len(calls) :
        calls[i].transport = "xhr" =>
            calls[i].headers.Authorization = ExpectedAuthorization(calls[i].issuedWith)

\* C3: on a host without a window, upload and replace reject with the
\* capability error and no request is created, opened or sent.
C3_NoUploadWithoutWindow ==
    \A i \in 1..Len(calls) :
        (calls[i].op \in {"upload", "replace"} /\ ~env.hasWindow) =>
            /\ calls[i].transport = "none"
            /\ calls[i].result = ErrorWith("File uploads only supported in browser")

\* C4: an upload whose connection failed (final ready state 4, status 0,
\* empty response text, then the 'error' event) is rejected with
\* 'An unexpected error occurred', not with 'Unable to parse json'.
C4_TransportFailureIsGenericError ==
    \A i \in 1..Len(calls) :
        (/\ calls[i].transport = "xhr"
         /\ calls[i].readyState = 4
         /\ calls[i].response.status = 0) =>
            calls[i].promise = ErrorWith("An unexpected error occurred")

\* C5: a makeRequest answered with a non-2xx status is rejected, when the
\* body is not JSON, with the status text, or with 'No error info' if the
\* status text is empty; when the body is JSON with a message string, with
\* exactly that string.
C5_StatusErrorMessage ==
    \A i \in 1..Len(calls) :
        (/\ calls[i].transport = "fetch"
         /\ calls[i].response.type = "response"
         /\ ~InSuccessRange(calls[i].response.status)) =>
            LET res == calls[i].response
            IN /\ res.body \in NonJsonBodies =>
                    calls[i].promise =
                        ErrorWith(IF res.statusText = "" THEN "No error info"
                                  ELSE res.statusText)
               /\ res.body = "{\"message\":\"not found\"}" =>
                    calls[i].promise = ErrorWith("not found")
               /\ res.body = "{\"message\":\"\"}" =>
                    calls[i].promise = ErrorWith("")

\* the parsing of one transmitted name or value by the receiver
FormDecode(s) ==
    CASE s = "a+b" -> "a b"
      [] s = "a%2Bb" -> "a+b"
      [] s = "text%2Fplain" -> "text/plain"
      [] OTHER -> s

NonEmptyString(v) == v.type = "string" /\ v.v # ""

\* C6: the query string makeRequest transmits contains exactly the keys of
\* the query object whose value is a non-empty string, each once and with
\* exactly that value; a key whose value is undefined, null or "" does not
\* appear at all.
C6_QueryHasExactlyTruthyEntries ==
    \A i \in 1..Len(calls) :
        calls[i].transport = "fetch" =>
            LET q == calls[i].args.query
                wire == calls[i].query
            IN /\ \A e \in 1..Len(q) :
                    IF NonEmptyString(q[e][2])
                    THEN /\ Cardinality({j \in 1..Len(wire) :
                                           FormDecode(wire[j][1]) = q[e][1]}) = 1
                         /\ \E j \in 1..Len(wire) :
                               /\ FormDecode(wire[j][1]) = q[e][1]
                               /\ FormDecode(wire[j][2]) = q[e][2].v
                    ELSE \A j \in 1..Len(wire) : FormDecode(wire[j][1]) # q[e][1]
               /\ \A j \in 1..Len(wire) :
                    \E e \in 1..Len(q) : q[e][1] = FormDecode(wire[j][1])

\* a query object with one empty and one non-empty value: only the latter
\* is transmitted
C6_Witness ==
    \E i \in 1..Len(calls) :
        /\ calls[i].transport = "fetch"
        /\ calls[i].args.query = <<<<"count", Str("")>>, <<"parentId", Str("a b")>>>>
        /\ calls[i].query = <<<<"parentId", "a+b">>>>

\* C7: no request of the client transmits a query parameter without a
\* value: parentId, mimeType and originalName appear in the URL of an upload
\* or replace only if their value is not empty.
C7_NoEmptyQueryParameter ==
    \A i \in 1..Len(calls) :
        \A j \in 1..Len(calls[i].query) : calls[i].query[j][2] # ""

\* C8: when the makeRequest under a checkAuth settles, checkAuth resolves
\* true if it resolved and false if it was rejected (non-2xx status, network
\* failure, or a 2xx body that is not JSON); checkAuth is never rejected and
\* the step leaves the token as it was.
C8_CheckAuthIsBoolean ==
    [][\A i \in 1..Len(calls) :
          (/\ calls[i].op = "checkAuth"
           /\ calls[i].promise.state = "pending"
           /\ calls'[i].promise.state # "pending") =>
              LET res == calls'[i].response
                  failed == \/ res.type = "failure"
                            \/ ~InSuccessRange(res.status)
                            \/ res.body \in NonJsonBodies
              IN /\ token' = token
                 /\ calls'[i].promise.state = (IF failed THEN "rejected" ELSE "resolved")
                 /\ calls'[i].result = Resolved(Bool(~failed))]_vars

\* checkAuth has answered false to a 2xx response that is not JSON
C8_Witness ==
    \E i \in 1..Len(calls) :
        /\ calls[i].op = "checkAuth"
        /\ calls[i].response \in {Response(st, tx, b) :
                                     st \in {200, 299}, tx \in StatusTexts,
                                     b \in NonJsonBodies}
        /\ calls[i].promise.state = "rejected"
        /\ calls[i].result = Resolved(Bool(FALSE))

\* the message of a status failure of an upload whose body is JSON
C9_Message(body, statusText) ==
    IF body = "{\"message\":\"not found\"}" THEN "not found"
    ELSE IF statusText # "" THEN statusText
    ELSE "No error info"

\* C9: a completed upload resolves with the parsed value if the response
\* text is JSON and the status is in 200..299; is rejected with the parsed
\* message, else the status text, else 'No error info' if the text is JSON
\* and the status is outside 200..299; and is rejected with
\* 'Unable to parse json' if the text is not JSON.  A JSON text, null
\* included, never gives the parse error.
C9_UploadSettlement ==
    \A i \in 1..Len(calls) :
        (/\ calls[i].transport = "xhr"
         /\ calls[i].readyState = 4
         /\ calls[i].response.status # 0) =>
            LET res == calls[i].response
            IN IF res.body \in NonJsonBodies
               THEN calls[i].promise = ErrorWith("Unable to parse json")
               ELSE IF InSuccessRange(res.status)
               THEN calls[i].promise = Resolved(JSONParse(res.body).value)
               ELSE calls[i].promise = ErrorWith(C9_Message(res.body, res.statusText))

\* C10: the Authorization value of a request is a function of the token
\* held when its call was issued; no later step, a token change included,
\* alters the headers of a request already issued; and no step of the
\* dispatcher (issuing or settling a call) writes the token.
C10_HeadersFixedAtIssue ==
    [][/\ \A i \in 1..Len(calls) :
            /\ calls'[i].headers = calls[i].headers
            /\ calls'[i].issuedWith = calls[i].issuedWith
       /\ \A i \in 1..Len(calls'), j \in 1..Len(calls') :
            (/\ calls'[i].transport = calls'[j].transport
             /\ calls'[i].issuedWith = calls'[j].issuedWith) =>
                calls'[i].headers.Authorization = calls'[j].headers.Authorization
       /\ Len(calls') > Len(calls) =>
            calls'[Len(calls')].issuedWith = token
       /\ calls' # calls => token' = token]_vars

\* a request of each primitive is in flight with the token it was issued
\* with, after the token has been changed
C10_Witness ==
    \E i \in 1..Len(calls), j \in 1..Len(calls) :
        /\ calls[i].transport = "fetch"
        /\ calls[j].transport = "xhr"
        /\ calls[i].promise.state = "pending"
        /\ calls[j].promise.state = "pending"
        /\ calls[i].issuedWith = Str("t1")
        /\ calls[j].issuedWith = Str("t1")
        /\ token = Str("t2")
        /\ calls[i].headers.Authorization = <<"Bearer ", "t1">>
        /\ calls[j].headers.Authorization = <<"Bearer ", "t1">>

====
